---- MODULE Spec2Model ----
(***************************************************************************)
(* Trusted-state synchronization template of the l2_shared package          *)
(* (synchronizer/l2_sync/l2_shared/sync_trusted_state.go).                  *)
(*                                                                          *)
(* One SyncTrustedStateTemplate instance is modelled together with the      *)
(* collaborators it is constructed with: the zkEVM client (remote tip and   *)
(* batches), the state (transactions and local batches), the batch          *)
(* executor and the flush-id check of the synchronizer.  Every collaborator *)
(* call is one step, so that each of them can fail on its own.              *)
(***************************************************************************)
EXTENDS Integers, Sequences, FiniteSets, TLC

\* ------------------------------------------------------------------ bounds
\* width of the batch counter of the model (uint64 in the source)
Width == 3
\* highest batch number the remote ledger reaches
MaxTip == 3
\* highest value a caller passes as latestSyncedBatch
MaxProgress == 4
\* number of SyncTrustedState invocations in one behaviour
MaxCalls == 3
\* batches 1..k (k <= MaxStored) may be in the local state before the first call
MaxStored == 1

\* the goroutines that may call into the engine
\* fetches of one invocation that are followed at the top of the number range
MaxFetched == 3

Procs == {"g1", "g2"}

UintRange == 2 ^ Width
BatchNumbers == 0 .. (UintRange - 1)

VARIABLES
    TrustedState,   \* s.TrustedState: the engine's cache
    store,          \* batch numbers holding a committed local record
    tip,            \* batch number the trusted node reports
    call,           \* locals of the SyncTrustedState invocation of each goroutine
    hist,           \* what each invocation did so far (observation only)
    progress,       \* the caller's progress cursor
    initial,        \* the normalized progress the caller started from
    applied,        \* per batch number: committed transactions that processed it
    lastCommitted,  \* batch of the most recent commit since the last clean, 0 if none
    calls,          \* invocations started
    overlapped      \* an invocation has started while another one was running

vars == <<TrustedState, store, tip, call, hist, progress, initial, applied,
          lastCommitted, calls, overlapped>>

\* ------------------------------------------------------------------ data
\* *state.Batch: nil or a batch with its number
NoBatch == [nil |-> TRUE, BatchNumber |-> 0]
Batch(n) == [nil |-> FALSE, BatchNumber |-> n]

\* *StateRootEntry: nil or the entry of a batch number
NoStateRoot == [nil |-> TRUE, batchNumber |-> 0]
StateRootEntry(n) == [nil |-> FALSE, batchNumber |-> n]

\* TrustedState{}: no batches, no state root
EmptyTrustedState == [LastTrustedBatches |-> <<>>, LastStateRoot |-> NoStateRoot]

\* the locals of an invocation that has not started
IdleCall ==
    [pc |-> "idle", arg |-> 0, latestSyncedBatch |-> 0,
     lastTrustedStateBatchNumber |-> 0, batchNumberToSync |-> 0,
     batchToSync |-> 0, dbTx |-> "none", txWrites |-> {},
     previousStatus |-> EmptyTrustedState, newTrustedState |-> EmptyTrustedState,
     err |-> "nil", result |-> "nil"]

EmptyHist ==
    [fetched |-> <<>>, processed |-> <<>>, committed |-> <<>>, lookups |-> <<>>,
     begun |-> 0, closed |-> 0, failedAt |-> "none", tipKnown |-> FALSE,
     txlog |-> <<>>, checked |-> <<>>,
     cache0 |-> EmptyTrustedState, store0 |-> {}]

Range(a, b) == [i \in 1 .. (IF b >= a THEN b - a + 1 ELSE 0) |-> a + i - 1]

SingleFlight == \A q \in Procs : call[q].pc = "idle"

\* ------------------------------------------------------------------ engine
\* variant: latestSyncedBatch is used as it is passed
NormalizeNot(latestSyncedBatch) == latestSyncedBatch

\* variant: every call starts over from the first batch
NormalizeToFirst(latestSyncedBatch) == 1

\* latestSyncedBatch == 0 is taken as the first batch
Normalize(latestSyncedBatch) ==
    IF latestSyncedBatch = 0 THEN 1 ELSE latestSyncedBatch

\* variant: a tip equal to the progress counts as synchronized
isSynchronizedInclusive(lastTrustedStateBatchNumber, latestSyncedBatch) ==
    lastTrustedStateBatchNumber <= latestSyncedBatch

isSyncrhonizedTrustedState(lastTrustedStateBatchNumber, latestSyncedBatch) ==
    lastTrustedStateBatchNumber < latestSyncedBatch

\* variant: the counter steps over a batch
NextBatchNumberSkip(n) == (n + 2) % UintRange

\* batchNumberToSync++
NextBatchNumber(n) == (n + 1) % UintRange

\* trustedBatch.Number-1
PrevBatchNumber(n) == (n + UintRange - 1) % UintRange

\* the loop condition of syncTrustedBatchesToFrom
LoopContinues(batchNumberToSync, lastTrustedStateBatchNumber) ==
    batchNumberToSync <= lastTrustedStateBatchNumber

Finish(p, res, where) ==
    /\ call' = [call EXCEPT ![p].pc = "done", ![p].result = res]
    /\ hist' = [hist EXCEPT ![p].failedAt = where]

\* SyncTrustedState is entered with latestSyncedBatch
SyncTrustedState(p, latestSyncedBatch) ==
    /\ call[p].pc = "idle"
    /\ calls < MaxCalls
    /\ calls' = calls + 1
    /\ call' = [call EXCEPT ![p] =
                  [IdleCall EXCEPT !.pc = "BatchNumber",
                                   !.arg = latestSyncedBatch,
                                   !.latestSyncedBatch = Normalize(latestSyncedBatch)]]
    /\ hist' = [hist EXCEPT ![p] =
                  [EmptyHist EXCEPT !.cache0 = TrustedState, !.store0 = store]]
    /\ overlapped' = (overlapped \/ \E q \in Procs : call[q].pc \notin {"idle", "done"})
    /\ UNCHANGED <<TrustedState, store, tip, progress, initial, applied, lastCommitted>>

\* what the other variables do while an invocation takes a step of its own
Others == <<tip, progress, initial, calls, overlapped>>
Durable == <<TrustedState, store, applied, lastCommitted>>

\* variant: the traversal starts at latestSyncedBatch without comparing it to the tip
BatchNumberUntested(p) ==
    /\ call[p].pc = "BatchNumber"
    /\ \/ Finish(p, "errBatchNumber", "BatchNumber")
       \/ /\ call' = [call EXCEPT ![p].pc = "BatchByNumber",
                                  ![p].lastTrustedStateBatchNumber = tip,
                                  ![p].batchNumberToSync = call[p].latestSyncedBatch]
          /\ hist' = [hist EXCEPT ![p].tipKnown = TRUE]
    /\ UNCHANGED <<Durable, Others>>

\* s.zkEVMClient.BatchNumber, the synchronized test and the first loop test
BatchNumber(p) ==
    LET from == call[p].latestSyncedBatch
    IN  /\ call[p].pc = "BatchNumber"
        /\ \/ Finish(p, "errBatchNumber", "BatchNumber")
           \/ /\ call' = [call EXCEPT
                            ![p].pc = IF /\ ~isSyncrhonizedTrustedState(tip, from)
                                         /\ LoopContinues(from, tip)
                                      THEN "BatchByNumber" ELSE "done",
                            ![p].result = "nil",
                            ![p].lastTrustedStateBatchNumber = tip,
                            ![p].batchNumberToSync =
                                IF isSyncrhonizedTrustedState(tip, from) THEN 0 ELSE from]
              /\ hist' = [hist EXCEPT ![p].tipKnown = TRUE]
        /\ UNCHANGED <<Durable, Others>>

\* s.zkEVMClient.BatchByNumber(batchNumberToSync): the first step of an iteration
BatchByNumber(p) ==
    LET n == call[p].batchNumberToSync
        h == [hist[p] EXCEPT !.fetched = Append(@, n), !.lookups = <<>>,
                             !.cache0 = TrustedState]
    IN  /\ call[p].pc = "BatchByNumber"
        /\ \/ /\ call' = [call EXCEPT ![p].pc = "done", ![p].result = "errBatchByNumber"]
              /\ hist' = [hist EXCEPT ![p] = [h EXCEPT !.failedAt = "BatchByNumber"]]
           \/ /\ call' = [call EXCEPT ![p].pc = "BeginStateTransaction",
                                      ![p].batchToSync = n]
              /\ hist' = [hist EXCEPT ![p] = h]
        /\ UNCHANGED <<Durable, Others>>

\* s.state.BeginStateTransaction
BeginStateTransaction(p) ==
    /\ call[p].pc = "BeginStateTransaction"
    /\ \/ Finish(p, "errBegin", "BeginStateTransaction")
       \/ /\ call' = [call EXCEPT ![p].pc = "getCurrentBatches", ![p].dbTx = "open",
                                  ![p].txWrites = {}]
          /\ hist' = [hist EXCEPT ![p].begun = @ + 1, ![p].txlog = Append(@, <<>>)]
    /\ UNCHANGED <<Durable, Others>>

\* return rollback(ctx, dbTx, err): the call goes on to roll the transaction back;
\* h is what the invocation did so far, w what was written under the transaction
GoRollback(p, e, where, h, w) ==
    /\ call' = [call EXCEPT ![p].pc = "rollback", ![p].err = e, ![p].txWrites = w]
    /\ hist' = [hist EXCEPT ![p] = [h EXCEPT !.failedAt = where]]

\* ---------------------------------------------------------- getCurrentBatches
\* variant: slot 0 is looked up on every call
Slot0AlwaysStale(batches, n) == TRUE

\* the test that guards "Updating batch[0] value!"
Slot0Stale(batches, n) ==
    \/ Len(batches) = 0
    \/ batches[1].nil
    \/ (~batches[1].nil /\ n # batches[1].BatchNumber)

\* variant: a cached slot 0 is taken as predecessor whatever its number
Slot1StaleIfAbsent(batches, n) ==
    \/ Len(batches) = 0
    \/ batches[1].nil

\* variant: the predecessor is looked up whenever slot 0 is
Slot1AlwaysStale(batches, n) == TRUE

\* the test that guards "Updating batch[1] value!"
Slot1Stale(batches, n) ==
    \/ Len(batches) = 0
    \/ batches[1].nil
    \/ (~batches[1].nil /\ PrevBatchNumber(n) # batches[1].BatchNumber)

\* s.state.GetBatchByNumber(n, dbTx): the batch, state.ErrNotFound or another error
GetBatchByNumber(n) ==
    {[batch |-> NoBatch, err |-> "errGetBatchByNumber"]} \cup
    (IF n \in store THEN {[batch |-> Batch(n), err |-> "nil"]}
                    ELSE {[batch |-> NoBatch, err |-> "ErrNotFound"]})

\* variant: every lookup error aborts, state.ErrNotFound included
LookupAbortsOnNotFound(err) == err # "nil"

\* err != nil && err != state.ErrNotFound
LookupAborts(err) == err # "nil" /\ err # "ErrNotFound"

\* variant: the lookup error is logged and the batch goes to the executor
OnGetCurrentBatchesErrorIgnored(p, e, looked) ==
    /\ call' = [call EXCEPT ![p].pc = "ProcessTrustedBatch", ![p].err = e,
                            ![p].previousStatus =
                                [LastTrustedBatches |-> <<>>,
                                 LastStateRoot |-> TrustedState.LastStateRoot]]
    /\ hist' = [hist EXCEPT ![p].failedAt = "getCurrentBatches", ![p].lookups = looked]

\* variant: the lookup error is returned without rolling back
OnGetCurrentBatchesErrorNoRollback(p, e, looked) ==
    /\ call' = [call EXCEPT ![p].pc = "done", ![p].err = e, ![p].result = e]
    /\ hist' = [hist EXCEPT ![p].failedAt = "getCurrentBatches", ![p].lookups = looked]

\* the error path of the caller of getCurrentBatches
OnGetCurrentBatchesError(p, e, looked) ==
    GoRollback(p, e, "getCurrentBatches", [hist[p] EXCEPT !.lookups = looked], {})

\* getCurrentBatches returned cbatches: previousStatus is built from it
Resolved(p, cbatches, looked) ==
    /\ call' = [call EXCEPT ![p].pc = "ProcessTrustedBatch",
                            ![p].previousStatus =
                                [LastTrustedBatches |-> cbatches,
                                 LastStateRoot |-> TrustedState.LastStateRoot]]
    /\ hist' = [hist EXCEPT ![p].lookups = looked]

getCurrentBatches(p) ==
    LET batches == TrustedState.LastTrustedBatches
        n == call[p].batchToSync
        m == PrevBatchNumber(n)
    IN  /\ call[p].pc = "getCurrentBatches"
        /\ IF ~Slot0Stale(batches, n)
           THEN Resolved(p, batches, <<>>)
           ELSE \E r0 \in GetBatchByNumber(n) :
                  IF LookupAborts(r0.err)
                  THEN OnGetCurrentBatchesError(p, r0.err, <<n>>)
                  ELSE IF Slot1Stale(batches, n)
                       THEN \E r1 \in GetBatchByNumber(m) :
                              IF LookupAborts(r1.err)
                              THEN OnGetCurrentBatchesError(p, r1.err, <<n, m>>)
                              ELSE Resolved(p, <<r0.batch, r1.batch>>, <<n, m>>)
                       ELSE Resolved(p, <<r0.batch, batches[1]>>, <<n>>)
        /\ UNCHANGED <<Durable, Others>>

\* ---------------------------------------------------------- the executor
\* the window ProcessTrustedBatch answers with: the processed batch, its predecessor
\* as handed in, and the state root of the processed batch
ExecutorWindow(n, status) ==
    [LastTrustedBatches |->
        <<Batch(n), IF Len(status.LastTrustedBatches) >= 2
                    THEN status.LastTrustedBatches[2] ELSE NoBatch>>,
     LastStateRoot |-> StateRootEntry(n)]

\* variant: the executor's error is logged and the iteration goes on
OnProcessErrorIgnored(p, h, w) ==
    /\ call' = [call EXCEPT ![p].pc = "CheckFlushID", ![p].err = "errProcess",
                            ![p].txWrites = w]
    /\ hist' = [hist EXCEPT ![p] = [h EXCEPT !.failedAt = "ProcessTrustedBatch"]]

\* the error path after ProcessTrustedBatch; the executor may have written under dbTx
OnProcessError(p, h, w) == GoRollback(p, "errProcess", "ProcessTrustedBatch", h, w)

\* s.steps.ProcessTrustedBatch(ctx, batchToSync, previousStatus, dbTx)
ProcessTrustedBatch(p) ==
    LET n == call[p].batchToSync
        h == [hist[p] EXCEPT !.processed = Append(@, n)]
    IN  /\ call[p].pc = "ProcessTrustedBatch"
        /\ \/ \E w \in SUBSET {n} : OnProcessError(p, h, w)
           \/ /\ call' = [call EXCEPT ![p].pc = "CheckFlushID",
                                      ![p].txWrites = {n},
                                      ![p].newTrustedState =
                                          ExecutorWindow(n, call[p].previousStatus)]
              /\ hist' = [hist EXCEPT ![p] = h]
        /\ UNCHANGED <<Durable, Others>>

\* variant: the flush error is returned without rolling back
OnFlushErrorNoRollback(p, h) ==
    /\ call' = [call EXCEPT ![p].pc = "done", ![p].err = "errCheckFlushID",
                            ![p].result = "errCheckFlushID"]
    /\ hist' = [hist EXCEPT ![p] = [h EXCEPT !.failedAt = "CheckFlushID"]]

\* the error path after CheckFlushID; h is what the invocation did so far
OnFlushError(p, h) == GoRollback(p, "errCheckFlushID", "CheckFlushID", h, call[p].txWrites)

\* s.sync.CheckFlushID(dbTx)
CheckFlushID(p) ==
    LET h == [hist[p] EXCEPT !.checked = Append(@, call[p].batchToSync)]
    IN  /\ call[p].pc = "CheckFlushID"
        /\ \/ OnFlushError(p, h)
           \/ /\ call' = [call EXCEPT ![p].pc = "Commit"]
              /\ hist' = [hist EXCEPT ![p] = h]
        /\ UNCHANGED <<Durable, Others>>

\* variant: the cache takes the window handed to the executor
CacheOnCommitPrevious(p) == call[p].previousStatus

\* s.TrustedState = *newTrustedState
CacheOnCommit(p) == call[p].newTrustedState

\* the call made on the transaction is added to its log
Logged(h, what) ==
    [h EXCEPT !.closed = @ + 1,
              !.txlog = [@ EXCEPT ![Len(@)] = Append(@, what)]]

\* variant: a failed Commit is followed by a Rollback of the same transaction
OnCommitErrorRollback(p, h) ==
    /\ call' = [call EXCEPT ![p].pc = "rollback", ![p].err = "errCommit",
                            ![p].txWrites = {}]
    /\ hist' = [hist EXCEPT ![p] = [h EXCEPT !.failedAt = "Commit"]]

\* the error path after Commit: the error is returned as it is
OnCommitError(p, h) ==
    /\ call' = [call EXCEPT ![p].pc = "done", ![p].result = "errCommit",
                            ![p].dbTx = "commitFailed", ![p].txWrites = {}]
    /\ hist' = [hist EXCEPT ![p] = [h EXCEPT !.failedAt = "Commit"]]

\* dbTx.Commit, and on success the cache update, batchNumberToSync++ and the loop test
Commit(p) ==
    LET n == call[p].batchNumberToSync
        next == NextBatchNumber(n)
        h == Logged(hist[p], "Commit")
    IN  /\ call[p].pc = "Commit"
        /\ \/ /\ OnCommitError(p, h)
              /\ UNCHANGED Durable
           \/ /\ store' = store \cup call[p].txWrites
              /\ TrustedState' = CacheOnCommit(p)
              /\ applied' = [applied EXCEPT ![call[p].batchToSync] = @ + 1]
              /\ lastCommitted' = call[p].batchToSync
              /\ call' = [call EXCEPT
                            ![p].pc = IF LoopContinues(next, call[p].lastTrustedStateBatchNumber)
                                      THEN "BatchByNumber" ELSE "done",
                            ![p].result = "nil",
                            ![p].dbTx = "committed", ![p].txWrites = {},
                            ![p].batchNumberToSync = next]
              /\ hist' = [hist EXCEPT ![p] =
                            [h EXCEPT !.committed = Append(@, call[p].batchToSync)]]
        /\ UNCHANGED Others

\* variant: rollback always returns the cause
RollbackResultCause(rollbackErr, err) == err

\* what rollback returns: the rollback error if there is one, else the cause
RollbackResult(rollbackErr, err) == IF rollbackErr # "nil" THEN rollbackErr ELSE err

\* rollback(ctx, dbTx, err)
rollback(p) ==
    /\ call[p].pc = "rollback"
    /\ \E rollbackErr \in {"nil", "errRollback"} :
          call' = [call EXCEPT ![p].pc = "done",
                               ![p].dbTx = IF rollbackErr = "nil" THEN "rolledback"
                                                                  ELSE "rollbackFailed",
                               ![p].txWrites = {},
                               ![p].result = RollbackResult(rollbackErr, call[p].err)]
    /\ hist' = [hist EXCEPT ![p] = Logged(hist[p], "Rollback")]
    /\ UNCHANGED <<Durable, Others>>

\* variant: only the batches are cleared
CleanedBatchesOnly == [TrustedState EXCEPT !.LastTrustedBatches = <<>>]

\* LastTrustedBatches = nil, LastStateRoot = nil
CleanedState == [LastTrustedBatches |-> <<>>, LastStateRoot |-> NoStateRoot]

\* CleanTrustedState, called between invocations
CleanTrustedState ==
    /\ SingleFlight
    /\ TrustedState # CleanedState
    /\ TrustedState' = CleanedState
    /\ lastCommitted' = 0
    /\ UNCHANGED <<store, tip, call, hist, progress, initial, applied, calls, overlapped>>

\* the trusted node closes a batch and opens the next one
TipAdvance ==
    /\ tip < MaxTip
    /\ tip' = tip + 1
    /\ UNCHANGED <<TrustedState, store, call, hist, progress, initial, applied,
                   lastCommitted, calls, overlapped>>

\* one step of the engine inside an invocation
Step(p) ==
    \/ BatchNumber(p)
    \/ BatchByNumber(p)
    \/ BeginStateTransaction(p)
    \/ getCurrentBatches(p)
    \/ ProcessTrustedBatch(p)
    \/ CheckFlushID(p)
    \/ Commit(p)
    \/ rollback(p)

\* ------------------------------------------------------------------ callers
\* the invocation returns to a caller that keeps no cursor
Return(p) ==
    /\ call[p].pc = "done"
    /\ call' = [call EXCEPT ![p] = IdleCall]
    /\ hist' = [hist EXCEPT ![p] = EmptyHist]
    /\ UNCHANGED <<Durable, Others>>

\* a caller that passes any number, one invocation at a time
CallAny(p) ==
    /\ SingleFlight
    /\ \E n \in 0 .. MaxProgress : SyncTrustedState(p, n)

InitCommon ==
    /\ TrustedState = EmptyTrustedState
    /\ tip \in 0 .. MaxTip
    /\ call = [p \in Procs |-> IdleCall]
    /\ hist = [p \in Procs |-> EmptyHist]
    /\ applied = [n \in BatchNumbers |-> 0]
    /\ lastCommitted = 0
    /\ calls = 0
    /\ overlapped = FALSE

Init ==
    /\ InitCommon
    /\ \E k \in 0 .. MaxStored : store = 1 .. k
    /\ progress = 0
    /\ initial = 0

Next ==
    \/ \E p \in Procs : CallAny(p)
    \/ \E p \in Procs : Step(p)
    \/ \E p \in Procs : Return(p)
    \/ CleanTrustedState
    \/ TipAdvance

Spec == Init /\ [][Next]_vars

\* ------------------------------------------------- callers that keep a cursor
\* the cursor is passed as it is
CallWithProgress(p) ==
    /\ SingleFlight
    /\ SyncTrustedState(p, progress)

\* a caller that resumes where the call stopped: after a success the cursor
\* advances to the tip the call synced to, after a failure inside the traversal it
\* is the batch that was not committed
ReturnResume(p) ==
    /\ call[p].pc = "done"
    /\ progress' =
          IF call[p].result = "nil"
          THEN (IF call[p].lastTrustedStateBatchNumber > progress
                THEN call[p].lastTrustedStateBatchNumber ELSE progress)
          ELSE (IF hist[p].tipKnown THEN call[p].batchNumberToSync ELSE progress)
    /\ call' = [call EXCEPT ![p] = IdleCall]
    /\ hist' = [hist EXCEPT ![p] = EmptyHist]
    /\ UNCHANGED <<Durable, tip, initial, calls, overlapped>>

InitResume ==
    /\ InitCommon
    /\ store = {}
    /\ progress \in 0 .. MaxProgress
    /\ initial = Normalize(progress)

NextResume ==
    \/ \E p \in Procs : CallWithProgress(p)
    \/ \E p \in Procs : Step(p)
    \/ \E p \in Procs : ReturnResume(p)
    \/ CleanTrustedState
    \/ TipAdvance

SpecResume == InitResume /\ [][NextResume]_vars

\* a caller whose cursor is the last batch number a call of it committed
ReturnLastSynced(p) ==
    /\ call[p].pc = "done"
    /\ progress' = IF hist[p].committed # <<>>
                   THEN hist[p].committed[Len(hist[p].committed)] ELSE progress
    /\ call' = [call EXCEPT ![p] = IdleCall]
    /\ hist' = [hist EXCEPT ![p] = EmptyHist]
    /\ UNCHANGED <<Durable, tip, initial, calls, overlapped>>

\* the cursor starts at the last batch of the local state
InitLastSynced ==
    /\ InitCommon
    /\ progress \in 0 .. MaxProgress
    /\ store = 1 .. progress
    /\ initial = Normalize(progress)

NextLastSynced ==
    \/ \E p \in Procs : CallWithProgress(p)
    \/ \E p \in Procs : Step(p)
    \/ \E p \in Procs : ReturnLastSynced(p)
    \/ CleanTrustedState
    \/ TipAdvance

SpecLastSynced == InitLastSynced /\ [][NextLastSynced]_vars

\* ------------------------------------------------- getCurrentBatches on its own
\* what a slot of the cache can hold
Slots == {NoBatch} \cup {Batch(n) : n \in 1 .. MaxTip}

\* the values of LastTrustedBatches: nil, or the two slots of line 205
Windows == {<<>>} \cup {<<a, b>> : a \in Slots, b \in Slots}

\* an iteration for batch n that has begun its transaction, with any cache
InitWindow ==
    /\ TrustedState \in [LastTrustedBatches : Windows, LastStateRoot : {NoStateRoot}]
    /\ store \in SUBSET (1 .. MaxTip)
    /\ tip \in 1 .. MaxTip
    /\ call = [p \in Procs |->
                 IF p = "g1"
                 THEN [IdleCall EXCEPT !.pc = "getCurrentBatches", !.arg = tip,
                                       !.latestSyncedBatch = tip,
                                       !.lastTrustedStateBatchNumber = tip,
                                       !.batchNumberToSync = tip, !.batchToSync = tip,
                                       !.dbTx = "open"]
                 ELSE IdleCall]
    /\ hist = [p \in Procs |->
                 IF p = "g1"
                 THEN [EmptyHist EXCEPT !.fetched = <<tip>>, !.begun = 1,
                                        !.txlog = << <<>> >>, !.tipKnown = TRUE,
                                        !.cache0 = TrustedState, !.store0 = store]
                 ELSE EmptyHist]
    /\ applied = [n \in BatchNumbers |-> 0]
    /\ lastCommitted = 0
    /\ calls = 1
    /\ overlapped = FALSE
    /\ progress = 0
    /\ initial = 0

NextWindow == \E p \in Procs : getCurrentBatches(p)

SpecWindow == InitWindow /\ [][NextWindow]_vars

\* ------------------------------------------------- invocations that interleave
\* dbTx.Commit on its own: the cache assignment that follows it is a step of its
\* own, and another invocation can run between the two
CommitTx(p) ==
    LET h == Logged(hist[p], "Commit")
    IN  /\ call[p].pc = "Commit"
        /\ \/ /\ OnCommitError(p, h)
              /\ UNCHANGED <<store, applied, lastCommitted>>
           \/ /\ store' = store \cup call[p].txWrites
              /\ applied' = [applied EXCEPT ![call[p].batchToSync] = @ + 1]
              /\ lastCommitted' = call[p].batchToSync
              /\ call' = [call EXCEPT ![p].pc = "CacheBatches",
                                      ![p].dbTx = "committed", ![p].txWrites = {}]
              /\ hist' = [hist EXCEPT ![p] =
                            [h EXCEPT !.committed = Append(@, call[p].batchToSync)]]
        /\ UNCHANGED <<TrustedState, Others>>

\* s.TrustedState = *newTrustedState is not atomic: the batches are copied first
CacheBatches(p) ==
    /\ call[p].pc = "CacheBatches"
    /\ TrustedState' = [TrustedState EXCEPT
                          !.LastTrustedBatches = CacheOnCommit(p).LastTrustedBatches]
    /\ call' = [call EXCEPT ![p].pc = "CacheStateRoot"]
    /\ UNCHANGED <<store, applied, lastCommitted, hist, Others>>

\* then the state root is copied; batchNumberToSync++ and the loop test follow
CacheStateRoot(p) ==
    LET next == NextBatchNumber(call[p].batchNumberToSync)
    IN  /\ call[p].pc = "CacheStateRoot"
        /\ TrustedState' = [TrustedState EXCEPT
                              !.LastStateRoot = CacheOnCommit(p).LastStateRoot]
        /\ call' = [call EXCEPT
                      ![p].pc = IF LoopContinues(next, call[p].lastTrustedStateBatchNumber)
                                THEN "BatchByNumber" ELSE "done",
                      ![p].result = "nil",
                      ![p].batchNumberToSync = next]
        /\ UNCHANGED <<store, applied, lastCommitted, hist, Others>>

StepConcurrent(p) ==
    \/ BatchNumber(p)
    \/ BatchByNumber(p)
    \/ BeginStateTransaction(p)
    \/ getCurrentBatches(p)
    \/ ProcessTrustedBatch(p)
    \/ CheckFlushID(p)
    \/ CommitTx(p)
    \/ CacheBatches(p)
    \/ CacheStateRoot(p)
    \/ rollback(p)

\* a caller that does not wait for the invocation in flight
CallConcurrently(p) == SyncTrustedState(p, progress)

InitConcurrent ==
    /\ InitCommon
    /\ store = {}
    /\ progress = 0
    /\ initial = 0

NextConcurrent ==
    \/ \E p \in Procs : CallConcurrently(p)
    \/ \E p \in Procs : StepConcurrent(p)

SpecConcurrent == InitConcurrent /\ [][NextConcurrent]_vars

\* ------------------------------------------------- the top of the number range
\* the traversal is followed for at most MaxFetched fetches of an invocation
StepBounded(p) ==
    /\ call[p].pc = "BatchByNumber" => Len(hist[p].fetched) < MaxFetched
    /\ Step(p)

\* a caller whose local state is at the top of the range of uint64
CallAtTop(p) ==
    /\ SingleFlight
    /\ \E n \in (UintRange - 2) .. (UintRange - 1) : SyncTrustedState(p, n)

\* the remote tip is at the top of the range too
InitWrap ==
    /\ TrustedState = EmptyTrustedState
    /\ tip \in (UintRange - 2) .. (UintRange - 1)
    /\ call = [p \in Procs |-> IdleCall]
    /\ hist = [p \in Procs |-> EmptyHist]
    /\ applied = [n \in BatchNumbers |-> 0]
    /\ lastCommitted = 0
    /\ calls = 0
    /\ overlapped = FALSE
    /\ store = {}
    /\ progress = 0
    /\ initial = 0

NextWrap ==
    \/ \E p \in Procs : CallAtTop(p)
    \/ \E p \in Procs : StepBounded(p)

SpecWrap == InitWrap /\ [][NextWrap]_vars

\* ------------------------------------------------------------------ properties
Elems(q) == {q[i] : i \in 1 .. Len(q)}
Returned(p) == call[p].pc = "done"
InIteration(p) == call[p].pc \in {"ProcessTrustedBatch", "CheckFlushID", "Commit"}

\* C1: when the executor fails at batch k and the rollback succeeds, the call has
\* committed exactly latestSyncedBatch..k-1 (all of them in the local state, and
\* nothing else was added to it), the transaction of k is rolled back, nothing
\* after k was fetched or processed, and the executor's error is returned.
PartialFailureDurability ==
    \A p \in Procs :
        (/\ Returned(p)
         /\ hist[p].failedAt = "ProcessTrustedBatch"
         /\ call[p].dbTx # "rollbackFailed")
        => LET k == call[p].batchNumberToSync
               from == call[p].latestSyncedBatch
           IN  /\ call[p].dbTx = "rolledback"
               /\ hist[p].committed = Range(from, k - 1)
               /\ store = hist[p].store0 \cup (from .. (k - 1))
               /\ hist[p].fetched = Range(from, k)
               /\ hist[p].processed = Range(from, k)
               /\ call[p].result = "errProcess"

\* C1 witness: the executor failed at the third batch of a call, after two commits
PartialFailureReached ==
    \E p \in Procs :
        /\ Returned(p)
        /\ hist[p].failedAt = "ProcessTrustedBatch"
        /\ call[p].dbTx = "rolledback"
        /\ Len(hist[p].committed) = 2
        /\ call[p].batchNumberToSync \notin store

\* C4: the cache changes inside SyncTrustedState only in the step of a successful
\* Commit, and then to the window the executor returned for that transaction (the
\* only other change is the external reset); and a call that returns an error
\* leaves the cache as it was when the failing iteration started.
CacheStep ==
    TrustedState' # TrustedState =>
        \/ \E p \in Procs :
              /\ call[p].pc = "Commit"
              /\ call'[p].dbTx = "committed"
              /\ TrustedState' = call[p].newTrustedState
        \/ (SingleFlight /\ TrustedState' = EmptyTrustedState /\ call' = call)

CacheKeptOnFailure ==
    \A p \in Procs :
        (Returned(p) /\ call[p].result # "nil") => TrustedState = hist[p].cache0

\* C4: every step that changes the cache is CacheStep, and CacheKeptOnFailure holds
\* whenever a call has returned an error.
CacheOnlyAfterCommit == [][CacheStep]_vars /\ []CacheKeptOnFailure

\* C4 witness: a call failed after an earlier iteration of it changed the cache
CacheFailureReached ==
    \E p \in Procs :
        /\ Returned(p)
        /\ call[p].result # "nil"
        /\ Len(hist[p].committed) >= 1
        /\ TrustedState.LastStateRoot = StateRootEntry(call[p].batchNumberToSync - 1)

\* C5: when the tip read equals the normalized progress the call is not taken as
\* synchronized: it makes at most one iteration, for the batch numbered progress,
\* and when it returns success it has fetched, processed and committed exactly
\* that batch; this holds for every call, a repeated one included.
BoundaryReprocessing ==
    \A p \in Procs :
        (hist[p].tipKnown /\ call[p].lastTrustedStateBatchNumber = call[p].latestSyncedBatch)
        => LET n == call[p].latestSyncedBatch
           IN  /\ hist[p].fetched \in {<<>>, <<n>>}
               /\ (Returned(p) /\ call[p].result = "nil")
                    => /\ hist[p].fetched = <<n>>
                       /\ hist[p].processed = <<n>>
                       /\ hist[p].committed = <<n>>
                       /\ n \in store

\* C5 witness: a second call at the boundary committed the same batch again
BoundaryReprocessedAgain ==
    \E p \in Procs :
        /\ Returned(p)
        /\ call[p].result = "nil"
        /\ call[p].lastTrustedStateBatchNumber = call[p].latestSyncedBatch
        /\ hist[p].committed = <<call[p].latestSyncedBatch>>
        /\ applied[call[p].latestSyncedBatch] >= 2

\* C6: when the tip read is below the normalized progress the call returns success
\* at once: no batch fetched, no transaction begun, no store lookup, cache and
\* local state unchanged.
NoOpWhenBehind ==
    \A p \in Procs :
        (hist[p].tipKnown /\ call[p].lastTrustedStateBatchNumber < call[p].latestSyncedBatch)
        => /\ Returned(p)
           /\ call[p].result = "nil"
           /\ hist[p].fetched = <<>>
           /\ hist[p].begun = 0
           /\ hist[p].lookups = <<>>
           /\ call[p].dbTx = "none"
           /\ TrustedState = hist[p].cache0
           /\ store = hist[p].store0

\* C6 witness: a call behind the tip returned, with a cache that is not empty
NoOpReached ==
    \E p \in Procs :
        /\ Returned(p)
        /\ hist[p].tipKnown
        /\ call[p].lastTrustedStateBatchNumber < call[p].latestSyncedBatch
        /\ TrustedState # EmptyTrustedState

\* C7: when the most recent commit (with no clean since) was batch N, the
\* iteration for N+1 makes no store lookup for N and hands the executor the cached
\* batch N as predecessor.
CacheReuse ==
    \A p \in Procs :
        (/\ InIteration(p)
         /\ lastCommitted >= 1
         /\ call[p].batchToSync = lastCommitted + 1)
        => /\ lastCommitted \notin Elems(hist[p].lookups)
           /\ hist[p].cache0.LastTrustedBatches[1] = Batch(lastCommitted)
           /\ call[p].previousStatus.LastTrustedBatches[2] =
                 hist[p].cache0.LastTrustedBatches[1]

\* C7 witness: batch N+1 is the first batch of a call, N was committed by an earlier one
CacheReuseAcrossCalls ==
    \E p \in Procs :
        /\ call[p].pc = "ProcessTrustedBatch"
        /\ lastCommitted >= 1
        /\ call[p].batchToSync = lastCommitted + 1
        /\ hist[p].committed = <<>>
        /\ hist[p].lookups = <<call[p].batchToSync>>

\* C8: a not-found answer of GetBatchByNumber never aborts the call: the error that
\* aborts window resolution is never state.ErrNotFound, a slot whose lookup found
\* nothing is handed to the executor as absent, and against an empty local state
\* with an empty cache batch 1 is handed over with both slots absent.
NotFoundTolerance ==
    \A p \in Procs :
        /\ hist[p].failedAt = "getCurrentBatches" => call[p].err = "errGetBatchByNumber"
        /\ call[p].pc = "ProcessTrustedBatch" =>
              /\ \A i \in 1 .. Len(hist[p].lookups) :
                    hist[p].lookups[i] \notin store =>
                        call[p].previousStatus.LastTrustedBatches[i] = NoBatch
              /\ (store = {} /\ hist[p].cache0 = EmptyTrustedState /\ call[p].batchToSync = 1)
                    => /\ hist[p].lookups = <<1, 0>>
                       /\ call[p].previousStatus =
                             [LastTrustedBatches |-> <<NoBatch, NoBatch>>,
                              LastStateRoot |-> NoStateRoot]

\* C8 witness: the first call, empty local state and cache, batch 1 at the executor
EmptyWindowReached ==
    \E p \in Procs :
        /\ call[p].pc = "ProcessTrustedBatch"
        /\ calls = 1
        /\ store = {}
        /\ hist[p].cache0 = EmptyTrustedState
        /\ call[p].batchToSync = 1
        /\ call[p].previousStatus.LastTrustedBatches = <<NoBatch, NoBatch>>

RollbackFailurePrecedence ==
    \A p \in Procs :
        (Returned(p) /\ hist[p].failedAt \in {"ProcessTrustedBatch", "CheckFlushID"})
        => /\ call[p].err = (IF hist[p].failedAt = "ProcessTrustedBatch"
                             THEN "errProcess" ELSE "errCheckFlushID")
           /\ call[p].dbTx \in {"rolledback", "rollbackFailed"}
           /\ call[p].dbTx = "rollbackFailed" => call[p].result = "errRollback"
           /\ call[p].dbTx = "rolledback" => call[p].result = call[p].err

\* C10 witness: CheckFlushID failed and then Rollback failed
RollbackFailureReached ==
    \E p \in Procs :
        /\ Returned(p)
        /\ hist[p].failedAt = "CheckFlushID"
        /\ call[p].dbTx = "rollbackFailed"
        /\ call[p].result = "errRollback"

Applied == {n \in BatchNumbers : applied[n] >= 1}
Highest(S) == CHOOSE n \in S : \A m \in S : m <= n

\* C2: under a caller that resumes from the progress of the previous call, the
\* batch numbers holding a committed local record are at every moment exactly the
\* numbers committed by the calls, and they form the range without gap from the
\* (normalized) initial progress to the highest batch synced; a call that returns
\* success has synced up to the tip it read.
Resumability ==
    /\ store = Applied
    /\ store # {} => store = initial .. Highest(store)
    /\ \A p \in Procs :
          (/\ Returned(p)
           /\ call[p].result = "nil"
           /\ call[p].lastTrustedStateBatchNumber >= call[p].latestSyncedBatch)
          => /\ store = initial .. call[p].lastTrustedStateBatchNumber
             /\ \A n \in store : n \in Elems(hist[p].committed) \/ n \in hist[p].store0

\* C2 witness: a call failed at batch 3 after committing 1 and 2, and the next call,
\* resumed at 3, completed the range
ResumedAfterFailure ==
    \E p \in Procs :
        /\ Returned(p)
        /\ call[p].result = "nil"
        /\ initial = 1
        /\ store = 1 .. 3
        /\ hist[p].committed = <<3>>
        /\ applied[3] = 1

\* C3 (as stated): every batch number is applied by exactly one committed
\* transaction, under a caller that passes the last synced batch number.
ExactlyOnceApplication ==
    /\ \A n \in BatchNumbers : applied[n] <= 1
    /\ \A p \in Procs :
          (Returned(p) /\ call[p].result = "nil")
          => \A n \in call[p].latestSyncedBatch .. call[p].lastTrustedStateBatchNumber :
                applied[n] = 1

ReappliedOnlyAtBoundary ==
    \A n \in BatchNumbers :
        (applied'[n] > applied[n] /\ applied[n] >= 1)
        => \E p \in Procs : call[p].pc = "Commit" /\ n = call[p].latestSyncedBatch

AppliedAtLeastOnce ==
    \A p \in Procs :
        (Returned(p) /\ call[p].result = "nil")
        => \A n \in call[p].latestSyncedBatch .. call[p].lastTrustedStateBatchNumber :
              applied[n] >= 1

\* C3 (amended): under a caller that passes the last synced batch number, every
\* batch of the range a successful call covers is applied by at least one committed
\* transaction, and a batch already applied is applied again only as the batch the
\* call starts from (its normalized progress); every other batch is applied once.
AtLeastOnceApplication == []AppliedAtLeastOnce /\ [][ReappliedOnlyAtBoundary]_vars

\* C3 witness: the batch a call started from was applied a second time, the next
\* batch of the same call for the first time
BoundaryAppliedTwice ==
    \E p \in Procs :
        /\ Returned(p)
        /\ call[p].result = "nil"
        /\ Len(hist[p].committed) = 2
        /\ applied[hist[p].committed[1]] = 2
        /\ applied[hist[p].committed[2]] = 1

Last(q) == q[Len(q)]

\* C11: when Commit fails for batch N the call returns the commit error, Commit is
\* the only call made on that transaction (no Rollback), the cache is the one the
\* iteration started with, and N is the last batch fetched and processed.
CommitFailure ==
    \A p \in Procs :
        (Returned(p) /\ hist[p].failedAt = "Commit")
        => LET n == call[p].batchToSync
               from == call[p].latestSyncedBatch
           IN  /\ call[p].result = "errCommit"
               /\ Last(hist[p].txlog) = <<"Commit">>
               /\ TrustedState = hist[p].cache0
               /\ call[p].batchNumberToSync = n
               /\ hist[p].fetched = Range(from, n)
               /\ hist[p].processed = Range(from, n)
               /\ hist[p].committed = Range(from, n - 1)

\* C11 witness: Commit failed for the second batch of a call
CommitFailureReached ==
    \E p \in Procs :
        /\ Returned(p)
        /\ call[p].result = "errCommit"
        /\ Len(hist[p].committed) = 1
        /\ Len(hist[p].fetched) = 2
        /\ TrustedState.LastStateRoot = StateRootEntry(call[p].batchToSync - 1)

\* the call of goroutine p as it would be had it been entered with latestSyncedBatch n
EnteredWith(p, n) == [call[p] EXCEPT !.arg = n]

StartedAlike ==
    \A p \in Procs :
        (call[p].pc = "idle" /\ call'[p].pc # "idle" /\ call'[p].arg \in {0, 1})
        => /\ [call'[p] EXCEPT !.arg = 1] =
                 [IdleCall EXCEPT !.pc = "BatchNumber", !.arg = 1, !.latestSyncedBatch = 1]
           /\ hist'[p] = [EmptyHist EXCEPT !.cache0 = TrustedState, !.store0 = store]
           /\ UNCHANGED <<TrustedState, store, tip>>

RunsFromFirstBatch ==
    \A p \in Procs :
        (call[p].pc # "idle" /\ call[p].arg \in {0, 1})
        => /\ call[p].latestSyncedBatch = 1
           /\ hist[p].fetched = Range(1, Len(hist[p].fetched))
           /\ hist[p].tipKnown =>
                 (Returned(p) /\ hist[p].fetched = <<>>)
                     = (call[p].lastTrustedStateBatchNumber < 1)

\* C12: entering SyncTrustedState with 0 leaves the invocation, the cache and the
\* local state exactly as entering it with 1 does (the passed value aside, which
\* nothing reads afterwards), so both make the same collaborator calls from batch 1
\* on, leave the same cache and return the same result.
StartNormalization == [][StartedAlike]_vars /\ []RunsFromFirstBatch

\* C12 witness: a call entered with 0 synced batches 1 and 2
StartedFromZero ==
    \E p \in Procs :
        /\ Returned(p)
        /\ call[p].arg = 0
        /\ call[p].result = "nil"
        /\ hist[p].committed = <<1, 2>>
        /\ EnteredWith(p, 1).latestSyncedBatch = 1

AppliedSome == \E n \in BatchNumbers : applied[n] >= 1
Stored(n) == IF n \in store THEN Batch(n) ELSE NoBatch

ResetEmpties ==
    (call' = call /\ TrustedState' # TrustedState)
    => /\ TrustedState'.LastTrustedBatches = <<>>
       /\ TrustedState'.LastStateRoot = NoStateRoot

ResolvedFromStoreAfterReset ==
    \A p \in Procs :
        (InIteration(p) /\ AppliedSome /\ lastCommitted = 0)
        => LET n == call[p].batchToSync
           IN  /\ hist[p].lookups = <<n, PrevBatchNumber(n)>>
               /\ call[p].previousStatus.LastTrustedBatches =
                     <<Stored(n), Stored(PrevBatchNumber(n))>>
               /\ call[p].previousStatus.LastStateRoot = NoStateRoot

\* C13: CleanTrustedState leaves the cache with no batches and no state root, and
\* the first batch N processed after it (whatever was committed and cached before)
\* gets both slots from store lookups for N and N-1 and an absent LastStateRoot.
ResetThenLookups == [][ResetEmpties]_vars /\ []ResolvedFromStoreAfterReset

\* C13 witness: after commits and a reset, a batch found in the local state is at
\* the executor with a window made of two lookups
ResolvedAfterReset ==
    \E p \in Procs :
        /\ call[p].pc = "ProcessTrustedBatch"
        /\ AppliedSome
        /\ lastCommitted = 0
        /\ Len(hist[p].lookups) = 2
        /\ ~call[p].previousStatus.LastTrustedBatches[1].nil
        /\ ~call[p].previousStatus.LastTrustedBatches[2].nil

\* C15: within one call BatchByNumber is called for latestSyncedBatch,
\* latestSyncedBatch+1, ... in this order, none skipped or repeated, and a batch is
\* fetched only when every batch fetched before it has been committed.
InOrderTraversal ==
    \A p \in Procs :
        call[p].pc # "idle" =>
            LET f == hist[p].fetched
                c == hist[p].committed
            IN  /\ f = Range(call[p].latestSyncedBatch, call[p].latestSyncedBatch + Len(f) - 1)
                /\ Len(c) <= Len(f)
                /\ Len(f) - Len(c) <= 1
                /\ c = SubSeq(f, 1, Len(c))

\* C15 witness: the third batch of a call has been fetched after two commits
ThirdBatchFetched ==
    \E p \in Procs :
        /\ call[p].pc = "BeginStateTransaction"
        /\ Len(hist[p].fetched) = 3
        /\ Len(hist[p].committed) = 2

Unresolved(p) == {i \in 1 .. Len(hist[p].txlog) : hist[p].txlog[i] = <<>>}

\* C16: with one call at a time at most one transaction of the engine is
\* unresolved, a transaction is begun only when Commit or Rollback has been called
\* on every earlier one, and every transaction gets exactly one call, a Commit or
\* a Rollback, by the time the call returns.
OneTransactionAtATime ==
    \A p \in Procs :
        LET log == hist[p].txlog
        IN  /\ Len(log) = hist[p].begun
            /\ Cardinality(Unresolved(p)) <= 1
            /\ \A q \in Procs \ {p} : Unresolved(p) = {} \/ Unresolved(q) = {}
            /\ \A i \in 1 .. Len(log) :
                  /\ log[i] \in {<<>>, <<"Commit">>, <<"Rollback">>}
                  /\ log[i] = <<>> => (i = Len(log) /\ call[p].dbTx = "open")
            /\ Returned(p) => Unresolved(p) = {}

\* C16 witness: two transactions committed, the third one rolled back
ThreeTransactionsResolved ==
    \E p \in Procs :
        /\ Returned(p)
        /\ hist[p].txlog = << <<"Commit">>, <<"Commit">>, <<"Rollback">> >>
        /\ hist[p].failedAt = "CheckFlushID"

\* C19: when a lookup of window resolution fails with an error other than
\* not-found, the batch reaches neither the executor nor CheckFlushID, Rollback is
\* the one call made on its transaction, nothing is added to the local state for
\* it, and the call returns the lookup error, or the rollback error if Rollback
\* failed.
LookupFailure ==
    \A p \in Procs :
        (Returned(p) /\ hist[p].failedAt = "getCurrentBatches")
        => LET n == call[p].batchToSync
               from == call[p].latestSyncedBatch
           IN  /\ hist[p].processed = Range(from, n - 1)
               /\ hist[p].checked = Range(from, n - 1)
               /\ hist[p].committed = Range(from, n - 1)
               /\ Last(hist[p].txlog) = <<"Rollback">>
               /\ store = hist[p].store0 \cup (from .. (n - 1))
               /\ TrustedState = hist[p].cache0
               /\ call[p].dbTx \in {"rolledback", "rollbackFailed"}
               /\ call[p].result = (IF call[p].dbTx = "rolledback"
                                    THEN "errGetBatchByNumber" ELSE "errRollback")

\* C19 witness: the lookup of the predecessor failed and the rollback succeeded
PredecessorLookupFailed ==
    \E p \in Procs :
        /\ Returned(p)
        /\ hist[p].failedAt = "getCurrentBatches"
        /\ Len(hist[p].lookups) = 2
        /\ call[p].result = "errGetBatchByNumber"

AtExecutor(p) == call[p].pc = "ProcessTrustedBatch"
Present(w, i) == Len(w) >= i /\ ~w[i].nil

\* the window invariant of the cache: two populated slots are consecutive
Contiguous(w) ==
    (Present(w, 1) /\ Present(w, 2)) => w[2].BatchNumber = PrevBatchNumber(w[1].BatchNumber)

HandedContiguous(p) ==
    LET w == call[p].previousStatus.LastTrustedBatches
        n == call[p].batchToSync
    IN  /\ Present(w, 1) => w[1].BatchNumber = n
        /\ Present(w, 2) => w[2].BatchNumber = PrevBatchNumber(n)

\* C17 (as stated): for every cached window and every target N the window handed
\* to the executor has slot 0 absent or numbered N and slot 1 absent or numbered
\* N-1.
WindowContiguity ==
    \A p \in Procs : AtExecutor(p) => HandedContiguous(p)

\* C17 (amended): the same for every cached window whose two slots, when both are
\* populated, are consecutive.
WindowContiguityKept ==
    \A p \in Procs :
        (AtExecutor(p) /\ Contiguous(hist[p].cache0.LastTrustedBatches))
        => HandedContiguous(p)

\* C17 witness: a cached window with both slots populated is handed over as it is
ContiguousWindowReused ==
    \E p \in Procs :
        /\ AtExecutor(p)
        /\ hist[p].lookups = <<>>
        /\ Present(hist[p].cache0.LastTrustedBatches, 2)
        /\ Contiguous(hist[p].cache0.LastTrustedBatches)

\* C18 (as stated): slot 0 comes from the cache without a lookup only if cached
\* slot 0 is present and numbered N, slot 1 comes from the cache only if the entry
\* used for it is numbered N-1, and every slot that is not reusable is looked up.
SlotResolutionRule ==
    \A p \in Procs :
        AtExecutor(p) =>
            LET c == hist[p].cache0.LastTrustedBatches
                w == call[p].previousStatus.LastTrustedBatches
                n == call[p].batchToSync
                m == PrevBatchNumber(n)
                looked == Elems(hist[p].lookups)
            IN  /\ n \notin looked => (Present(c, 1) /\ c[1].BatchNumber = n)
                /\ m \notin looked => (Present(w, 2) /\ w[2].BatchNumber = m)

\* C18 (amended): slot 0 comes from the cache only if cached slot 0 is present and
\* numbered N, and then the whole cached window is handed over with no lookup,
\* whatever its slot 1 is; otherwise N is looked up, and slot 1 is cached slot 0 when
\* that is present and numbered N-1 and is looked up as N-1 when it is not.
SlotResolutionNested ==
    \A p \in Procs :
        AtExecutor(p) =>
            LET c == hist[p].cache0.LastTrustedBatches
                w == call[p].previousStatus.LastTrustedBatches
                n == call[p].batchToSync
                m == PrevBatchNumber(n)
            IN  IF Present(c, 1) /\ c[1].BatchNumber = n
                THEN hist[p].lookups = <<>> /\ w = c
                ELSE /\ w[1] = Stored(n)
                     /\ IF Present(c, 1) /\ c[1].BatchNumber = m
                        THEN hist[p].lookups = <<n>> /\ w[2] = c[1]
                        ELSE hist[p].lookups = <<n, m>> /\ w[2] = Stored(m)

\* C18 witness: slot 0 is reused and the absent cached slot 1 goes to the executor
\* without a lookup
AbsentPredecessorReused ==
    \E p \in Procs :
        /\ AtExecutor(p)
        /\ hist[p].lookups = <<>>
        /\ Len(call[p].previousStatus.LastTrustedBatches) = 2
        /\ call[p].previousStatus.LastTrustedBatches[2].nil
        /\ PrevBatchNumber(call[p].batchToSync) \in store

CacheWritePending == \E p \in Procs : call[p].pc \in {"CacheBatches", "CacheStateRoot"}

CacheIsWindowOf(n) ==
    /\ Present(TrustedState.LastTrustedBatches, 1)
    /\ TrustedState.LastTrustedBatches[1] = Batch(n)
    /\ TrustedState.LastStateRoot = StateRootEntry(n)

\* C14: as long as no invocation was entered while another was in flight, the cache
\* after every commit is the window of the most recently committed batch; once two
\* invocations interleave this can fail (CacheOutOfDate is reachable).
NonReentrancy ==
    (~overlapped /\ ~CacheWritePending /\ lastCommitted >= 1)
    => CacheIsWindowOf(lastCommitted)

\* C14 witness: two invocations interleaved, both have returned, and the cache is
\* the window of a batch older than the one committed last
CacheOutOfDate ==
    /\ overlapped
    /\ \A p \in Procs : call[p].pc = "done"
    /\ \E n \in 1 .. MaxTip : n < lastCommitted /\ CacheIsWindowOf(n)

\* C20: when no collaborator call fails, an invocation fetches only numbers of
\* max(progress,1)..tip, at most tip - max(progress,1) + 1 of them, and returns
\* success after exactly that many iterations, also at the top of the number range.
Termination ==
    \A p \in Procs :
        (hist[p].tipKnown /\ hist[p].failedAt = "none") =>
            LET from == call[p].latestSyncedBatch
                to == call[p].lastTrustedStateBatchNumber
            IN  /\ \A n \in Elems(hist[p].fetched) : from <= n /\ n <= to
                /\ to >= from => Len(hist[p].fetched) <= to - from + 1
                /\ (Returned(p) /\ to >= from) => Len(hist[p].committed) = to - from + 1
====
